---------------------------- MODULE Spec2Model ----------------------------
(***************************************************************************)
(* QtEvoBot: the Controller (src/controller.cpp) and the RobotService      *)
(* (src/robotservice.cpp) as one state machine.  Every handler of the two  *)
(* classes is an operator from a "world" record (the fields of both        *)
(* objects, the state of the Bluetooth transport they talk to, and the     *)
(* signals / writes emitted so far by the running handler) to the world    *)
(* after the handler has returned.  An action of the model is one event    *)
(* delivered by the Qt event loop: it runs the whole handler.              *)
(***************************************************************************)
EXTENDS Integers, Sequences, FiniteSets, TLC

VARIABLES
    controller,     \* fields of Controller::Private
    robotService,   \* fields of RobotService::Private
    ble,            \* state of the Bluetooth transport (adapter, scan, centrals, services)
    charIsSigned,   \* whether plain char is signed in this build (implementation-defined)
    last            \* what the last handled event did: signals emitted, writes issued, return value

vars == <<controller, robotService, ble, charIsSigned, last>>

----------------------------------------------------------------------------
(* Bounds of the model *)

\* transmits that may be pending before user calls / notifications are held back
MaxPending == 2
\* acknowledgments the transport may deliver beyond those of accepted writes
MaxExtraAcks == 1
\* `connected' events one central may deliver
MaxConnects == 2

----------------------------------------------------------------------------
(* Values *)

NullService == 0
NoCharacteristic == 0
NoCentral == 0

\* s_pauseMessage = "X\x11\x40\x40\x00\x00"
s_pauseMessage == <<88, 17, 64, 64, 0, 0>>

\* the bit pattern of static_cast<char>(n), as 0..255
ToChar(n) == n % 256

\* the value of a char holding bit pattern b (0..255) in this build
CharValue(b, isSigned) == IF isSigned /\ b >= 128 THEN b - 256 ELSE b

Min2(a, b) == IF a < b THEN a ELSE b
Max2(a, b) == IF a > b THEN a ELSE b

\* qBound<T>(min, val, max) = qMax(min, qMin(max, val))
qBound(min, val, max) == Max2(min, Min2(max, val))

\* qBound<char>(0, index, 3): index is narrowed to char before it is bounded
qBoundChar(min, index, max, isSigned) == qBound(min, CharValue(ToChar(index), isSigned), max)

NoFragment == [offset |-> -1, value |-> 0]

\* MessageFragment::operator bool
FragmentValid(f) == f.offset >= 0 /\ f.offset < 6

fragmentForAction(rs, isSigned, action, index) ==
    CASE action = "F" -> [offset |-> 1, value |-> ToChar(qBoundChar(0, index, 3, isSigned) + 1)]
      [] action = "B" -> [offset |-> 1, value |-> ToChar(qBoundChar(0, index, 3, isSigned) + 5)]
      [] action = "L" -> [offset |-> 1, value |-> ToChar(qBoundChar(0, index, 3, isSigned) + 9)]
      [] action = "R" -> [offset |-> 1, value |-> ToChar(qBoundChar(0, index, 3, isSigned) + 13)]
      [] action = "O" -> [offset |-> 2, value |-> 60]
      [] action = "C" -> [offset |-> 2, value |-> 61]
      [] action = "U" -> [offset |-> 3, value |-> 62]
      [] action = "D" -> [offset |-> 3, value |-> 63]
      [] action \in {"M", "V"} -> [offset |-> 4, value |-> ToChar(Max2(0, index) + 21)]
      [] action = "E" ->
            [offset |-> 5,
             value |-> ToChar(IF index # 0
                              THEN qBound(1, index, 63) + (IF rs.m_firmwareRevision = 1 THEN 53 ELSE 71)
                              ELSE 59)]
      [] OTHER -> NoFragment


----------------------------------------------------------------------------
(* The transport, as the two classes see it *)

\* peripherals that may be discovered, by Bluetooth address
Addresses == {1, 2}
RobotName == "Evolution-Robot"

\* QLowEnergyCharacteristic::isValid() of m_writeCharacteristic: a characteristic
\* that was found on its service, whose service has not been invalidated
WriteCharacteristicValid(w) ==
    /\ w.rs.m_writeCharacteristic # NoCharacteristic
    /\ w.ble.rc[w.rs.m_writeCharacteristic] # "InvalidService"

\* QLowEnergyService::writeCharacteristic is carried out only on a discovered
\* service, for a characteristic of that service; otherwise it sets OperationError
WriteAccepted(w) ==
    /\ w.rs.m_robotControl # NullService
    /\ w.ble.rc[w.rs.m_robotControl] = "ServiceDiscovered"
    /\ w.rs.m_writeCharacteristic = w.rs.m_robotControl

EmptyOut(op) ==
    [op |-> op, ret |-> "none", writes |-> <<>>, ctlStateChanged |-> <<>>,
     rsStateChanged |-> <<>>, errorOccured |-> <<>>, currentSoundChanged |-> <<>>,
     armed |-> <<>>]

----------------------------------------------------------------------------
(* Derived states and the state-change signals *)

RobotService_state(w) ==
    IF WriteCharacteristicValid(w) THEN "ConnectedState"
    ELSE IF w.rs.m_robotControl # NullService /\ w.rs.m_deviceInformation # NullService
         THEN "ConnectingState"
         ELSE "DisconnectedState"

\* state() with the session looked at before the error
Controller_state_SessionFirst(w) ==
    IF RobotService_state(w) = "ConnectedState" THEN "ConnectedState"
    ELSE IF w.ctl.m_error # "NoError" THEN "ErrorState"
    ELSE IF w.ctl.m_central # NoCentral THEN "ServiceDiscoveryState"
    ELSE IF w.ble.discoveryActive THEN "DeviceDiscoveryState"
    ELSE "UninitializedState"

\* state() reporting the session's ConnectingState as well
Controller_state_WithConnecting(w) ==
    IF w.ctl.m_error # "NoError" THEN "ErrorState"
    ELSE IF RobotService_state(w) = "ConnectedState" THEN "ConnectedState"
    ELSE IF RobotService_state(w) = "ConnectingState" THEN "ConnectingState"
    ELSE IF w.ctl.m_central # NoCentral THEN "ServiceDiscoveryState"
    ELSE IF w.ble.discoveryActive THEN "DeviceDiscoveryState"
    ELSE "UninitializedState"

Controller_state(w) ==
    IF w.ctl.m_error # "NoError" THEN "ErrorState"
    ELSE IF RobotService_state(w) = "ConnectedState" THEN "ConnectedState"
    ELSE IF w.ctl.m_central # NoCentral THEN "ServiceDiscoveryState"
    ELSE IF w.ble.discoveryActive THEN "DeviceDiscoveryState"
    ELSE "UninitializedState"

Controller_checkState(w) ==
    LET newState == Controller_state(w) IN
    IF w.ctl.m_oldState # newState
    THEN [w EXCEPT !.out.ctlStateChanged = Append(@, <<newState, w.ctl.m_oldState>>),
                   !.ctl.m_oldState = newState]
    ELSE w

\* emit q->stateChanged(newState, m_oldState) runs the Controller's slot, which
\* the Controller's constructor connects only when the adapter is valid
RobotService_checkState(w) ==
    LET newState == RobotService_state(w) IN
    IF newState # w.rs.m_oldState
    THEN LET w1 == [w EXCEPT !.out.rsStateChanged = Append(@, <<newState, w.rs.m_oldState>>)]
             w2 == IF w.ble.adapterValid THEN Controller_checkState(w1) ELSE w1
         IN [w2 EXCEPT !.rs.m_oldState = newState]
    ELSE w

----------------------------------------------------------------------------
(* Command transmitter *)

transmitMessage(w) ==
    IF w.rs.m_robotControl # NullService
    THEN [w EXCEPT !.rs.m_pendingMessageCount = @ + 1,
                   !.out.writes = Append(@, [msg |-> w.rs.m_message, accepted |-> WriteAccepted(w)]),
                   !.ble.inflight = IF WriteAccepted(w)
                                    THEN Append(@, [c |-> w.rs.m_robotControl, ext |-> w.rs.m_message[6]])
                                    ELSE @]
    ELSE w

\* setCurrentMessage(int offset, char value) writing one byte too low
setCurrentMessageAt_OffByOne(w, offset, value) ==
    IF offset >= 0 /\ offset < Len(w.rs.m_message) /\ w.rs.m_message[offset + 1] # value
    THEN transmitMessage([w EXCEPT !.rs.m_message[offset] = value])
    ELSE w

\* setCurrentMessage(int offset, char value)
setCurrentMessageAt(w, offset, value) ==
    IF offset >= 0 /\ offset < Len(w.rs.m_message) /\ w.rs.m_message[offset + 1] # value
    THEN transmitMessage([w EXCEPT !.rs.m_message[offset + 1] = value])
    ELSE w

\* setCurrentMessage(const QByteArray &message)
setCurrentMessage(w, message) ==
    IF message # w.rs.m_message /\ Len(message) = Len(w.rs.m_message)
    THEN transmitMessage([w EXCEPT !.rs.m_message = message])
    ELSE w

\* RobotService::setCurrentMessage(const QList<int> &): every int is narrowed to char
setCurrentMessageList(w, numbers) ==
    setCurrentMessage(w, [k \in 1..Len(numbers) |-> ToChar(numbers[k])])

\* onEmitterTimeout() with the comparison off by one
onEmitterTimeout_OnePending(w) ==
    IF w.rs.m_pendingMessageCount <= 1 THEN transmitMessage(w) ELSE w

onEmitterTimeout(w) ==
    IF w.rs.m_pendingMessageCount = 0 THEN transmitMessage(w) ELSE w

\* info == m_writeCharacteristic is decided by the caller (isWriteCharacteristic)
onCharacteristicWritten(w, isWriteCharacteristic) ==
    IF isWriteCharacteristic
    THEN setCurrentMessageAt([w EXCEPT !.rs.m_pendingMessageCount = @ - 1], 5, 0)
    ELSE w

----------------------------------------------------------------------------
(* Actions of the robot *)

\* startAction() pausing the robot when it does not know the action
startAction_UnknownPauses(w, isSigned, action, index) ==
    IF action = "S"
    THEN [setCurrentMessage(w, s_pauseMessage) EXCEPT !.out.ret = "true"]
    ELSE LET fragment == fragmentForAction(w.rs, isSigned, action, index) IN
         IF FragmentValid(fragment)
         THEN LET w1 == IF fragment.offset = 4
                        THEN [w EXCEPT !.rs.m_audioLoop = (action = "M")]
                        ELSE w
              IN [setCurrentMessageAt(w1, fragment.offset, fragment.value) EXCEPT !.out.ret = "true"]
         ELSE [setCurrentMessage(w, s_pauseMessage) EXCEPT !.out.ret = "false"]

startAction(w, isSigned, action, index) ==
    IF action = "S"
    THEN [setCurrentMessage(w, s_pauseMessage) EXCEPT !.out.ret = "true"]
    ELSE LET fragment == fragmentForAction(w.rs, isSigned, action, index) IN
         IF FragmentValid(fragment)
         THEN LET w1 == IF fragment.offset = 4
                        THEN [w EXCEPT !.rs.m_audioLoop = (action = "M")]
                        ELSE w
              IN [setCurrentMessageAt(w1, fragment.offset, fragment.value) EXCEPT !.out.ret = "true"]
         ELSE [w EXCEPT !.out.ret = "false"]

\* stopAction() with the comparison inverted
stopAction_Inverted(w, isSigned, action, index) ==
    LET fragment == fragmentForAction(w.rs, isSigned, action, index) IN
    IF FragmentValid(fragment)
    THEN IF fragment.value # w.rs.m_message[fragment.offset + 1]
         THEN [setCurrentMessageAt(w, fragment.offset, s_pauseMessage[fragment.offset + 1])
                  EXCEPT !.out.ret = "true"]
         ELSE [w EXCEPT !.out.ret = "false"]
    ELSE [w EXCEPT !.out.ret = "false"]

stopAction(w, isSigned, action, index) ==
    LET fragment == fragmentForAction(w.rs, isSigned, action, index) IN
    IF FragmentValid(fragment)
    THEN IF fragment.value = w.rs.m_message[fragment.offset + 1]
         THEN [setCurrentMessageAt(w, fragment.offset, s_pauseMessage[fragment.offset + 1])
                  EXCEPT !.out.ret = "true"]
         ELSE [w EXCEPT !.out.ret = "false"]
    ELSE [w EXCEPT !.out.ret = "false"]

playSound(w, isSigned, index) == startAction(w, isSigned, "V", index)

playLoop(w, isSigned, index) == startAction(w, isSigned, "M", index)


----------------------------------------------------------------------------
(* Robot session: services, firmware revision, notifications *)

\* readFirmwareVersion(); value is what the firmware-revision characteristic holds,
\* "invalid" when the characteristic is not valid
readFirmwareVersion(w, value) ==
    IF w.rs.m_deviceInformation # NullService /\ value = "Ver2.0"
    THEN [w |-> [w EXCEPT !.rs.m_firmwareRevision = 2], ret |-> TRUE]
    ELSE IF w.rs.m_deviceInformation # NullService /\ value = "Ver1.0"
    THEN [w |-> [w EXCEPT !.rs.m_firmwareRevision = 1], ret |-> TRUE]
    ELSE [w |-> w, ret |-> FALSE]

\* startNotification(); notifyOk: the notify characteristic and its client
\* configuration descriptor are both valid; writeDescriptor("0100") then
\* enables the notifications of the service
startNotification(w, notifyOk) ==
    IF w.rs.m_robotControl # NullService /\ notifyOk
    THEN [w |-> [w EXCEPT !.ble.notifying = @ \cup {w.rs.m_robotControl},
                          !.out.armed = Append(@, "notification")],
          ret |-> TRUE]
    ELSE [w |-> w, ret |-> FALSE]

\* startTransmission(); writeOk: the service has the write characteristic
startTransmission(w, writeOk) ==
    IF w.rs.m_robotControl # NullService
    THEN LET w1 == [w EXCEPT !.rs.m_writeCharacteristic =
                                 IF writeOk THEN w.rs.m_robotControl ELSE NoCharacteristic]
         IN IF WriteCharacteristicValid(w1)
            THEN LET w2 == [w1 EXCEPT !.ble.subscribed = @ \cup {w.rs.m_robotControl},
                                      !.out.armed = Append(@, "write")]
                     w3 == RobotService_checkState(w2)
                     w4 == [w3 EXCEPT !.rs.m_emitter = TRUE]
                 IN [w |-> onEmitterTimeout(w4), ret |-> TRUE]
            ELSE [w |-> w1, ret |-> FALSE]
    ELSE [w |-> w, ret |-> FALSE]

\* onServiceStateChanged() arming the write characteristic whatever
\* startNotification() returned
onServiceStateChanged_AlwaysTransmits(w, service, newState, env) ==
    IF newState = "DiscoveryRequired"
    THEN IF service.uuid = "DI"
         THEN [w EXCEPT !.ble.di[service.c] = "DiscoveringServices"]
         ELSE [w EXCEPT !.ble.rc[service.c] = "DiscoveringServices"]
    ELSE IF newState = "ServiceDiscovered"
    THEN IF service.current /\ service.uuid = "DI" /\ service.c = w.rs.m_deviceInformation
         THEN readFirmwareVersion(w, env.fw).w
         ELSE IF service.current /\ service.uuid = "RC" /\ service.c = w.rs.m_robotControl
         THEN startTransmission(startNotification(w, env.notifyOk).w, env.writeOk).w
         ELSE w
    ELSE w

\* service: [c, uuid, current]; current tells whether the object is the one the
\* session's field of that uuid points to.  env: what the peripheral answers
\* (fw, notifyOk, writeOk).
onServiceStateChanged(w, service, newState, env) ==
    IF newState = "DiscoveryRequired"
    THEN IF service.uuid = "DI"
         THEN [w EXCEPT !.ble.di[service.c] = "DiscoveringServices"]
         ELSE [w EXCEPT !.ble.rc[service.c] = "DiscoveringServices"]
    ELSE IF newState = "ServiceDiscovered"
    THEN IF service.current /\ service.uuid = "DI" /\ service.c = w.rs.m_deviceInformation
         THEN readFirmwareVersion(w, env.fw).w
         ELSE IF service.current /\ service.uuid = "RC" /\ service.c = w.rs.m_robotControl
         THEN LET n == startNotification(w, env.notifyOk) IN
              IF n.ret THEN startTransmission(n.w, env.writeOk).w ELSE n.w
         ELSE w
    ELSE w

NoAnswer == [fw |-> "invalid", notifyOk |-> FALSE, writeOk |-> FALSE]

\* createService(): createServiceObject returns nullptr for a service the
\* peripheral does not have, and service->state() is then a null dereference.
\* ub is what the build makes of it: "crash", or "continue" (nothing happens).
createService(w, central, uuid, ub) ==
    LET state == IF uuid = "DI" THEN w.ble.di[central] ELSE w.ble.rc[central] IN
    IF state \in {"Absent", "Unknown"}
    THEN [w |-> IF ub = "crash" THEN [w EXCEPT !.ble.crashed = TRUE] ELSE w,
          service |-> NullService]
    ELSE [w |-> onServiceStateChanged(w, [c |-> central, uuid |-> uuid, current |-> FALSE],
                                      state, NoAnswer),
          service |-> central]

attach(w, central, ub) ==
    IF RobotService_state(w) = "ConnectedState"
    THEN [w |-> w, ret |-> FALSE]
    ELSE LET deviceInformation == createService(w, central, "DI", ub)
             robotControl == createService(deviceInformation.w, central, "RC", ub)
         IN IF deviceInformation.w.ble.crashed \/ robotControl.w.ble.crashed
            THEN [w |-> [w EXCEPT !.ble.crashed = TRUE], ret |-> FALSE]
            ELSE IF deviceInformation.service # NullService /\ robotControl.service # NullService
            THEN [w |-> RobotService_checkState(
                            [robotControl.w EXCEPT !.rs.m_deviceInformation = deviceInformation.service,
                                                   !.rs.m_robotControl = robotControl.service]),
                  ret |-> TRUE]
            ELSE [w |-> robotControl.w, ret |-> FALSE]

\* capturedRef(1).toInt(): the decimal value, and 0 when it does not fit an int
RECURSIVE DecimalValue(_)
DecimalValue(digits) ==
    IF digits = <<>> THEN 0
    ELSE 10 * DecimalValue(SubSeq(digits, 1, Len(digits) - 1)) + digits[Len(digits)]

toInt(digits) == IF DecimalValue(digits) > 2147483647 THEN 0 ELSE DecimalValue(digits)

\* QRegularExpression(...).match(text): the first occurrence of the pattern.  A
\* text is a sequence of tokens [kind, digits], kind "Play" for V<digits>Play,
\* "End" for V<digits>End, "Other" for anything else.
RECURSIVE FirstMatch(_, _)
FirstMatch(text, kind) ==
    IF text = <<>> THEN <<>>
    ELSE IF Head(text).kind = kind THEN <<Head(text)>>
    ELSE FirstMatch(Tail(text), kind)

onCharacteristicChanged(w, isSigned, isNotify, text) ==
    IF ~isNotify THEN w
    ELSE LET play == FirstMatch(text, "Play")
             end == FirstMatch(text, "End")
         IN IF play # <<>>
            THEN LET n == toInt(play[1].digits)
                     w1 == [w EXCEPT !.rs.m_currentSound = n]
                     w2 == IF ~w1.rs.m_audioLoop
                           THEN [stopAction(w1, isSigned, "V", n) EXCEPT !.out.ret = "none"]
                           ELSE w1
                 IN [w2 EXCEPT !.out.currentSoundChanged = Append(@, w2.rs.m_currentSound)]
            ELSE IF end # <<>>
            THEN LET n == toInt(end[1].digits)
                     w1 == [w EXCEPT !.rs.m_currentSound = n]
                     w2 == IF w1.rs.m_audioLoop
                           THEN startAction(w1, isSigned, "M", w1.rs.m_currentSound)
                           ELSE LET w3 == [w1 EXCEPT !.rs.m_currentSound = -(w1.rs.m_currentSound)]
                                IN stopAction(w3, isSigned, "V", -(w3.rs.m_currentSound))
                     w4 == [w2 EXCEPT !.out.ret = "none"]
                 IN [w4 EXCEPT !.out.currentSoundChanged = Append(@, w4.rs.m_currentSound)]
            ELSE w


----------------------------------------------------------------------------
(* Controller *)

\* StateGuard runs checkState() when the handler's scope is left
raiseError(w, error) ==
    Controller_checkState([w EXCEPT !.ctl.m_error = error,
                                    !.out.errorOccured = Append(@, error)])

\* resetCentral() without central->disconnect(q)
resetCentral_KeepsSignals(w) ==
    IF w.ctl.m_central # NoCentral
    THEN Controller_checkState([w EXCEPT !.ctl.m_central = NoCentral,
                                         !.ble.pendingDelete = @ \cup {w.ctl.m_central}])
    ELSE Controller_checkState(w)

\* std::exchange(m_central, {}), disconnect(q), deleteLater()
resetCentral(w) ==
    IF w.ctl.m_central # NoCentral
    THEN Controller_checkState([w EXCEPT !.ctl.m_central = NoCentral,
                                         !.ble.wired = @ \ {w.ctl.m_central},
                                         !.ble.pendingDelete = @ \cup {w.ctl.m_central},
                                         !.ble.connects = 0,
                                         !.ble.discovering = FALSE])
    ELSE Controller_checkState(w)

IsKnownDevice(w, address) ==
    \E k \in 1..Len(w.ctl.m_knownDevices) : w.ctl.m_knownDevices[k] = address

onDeviceDiscovered(w, address, name) ==
    IF IsKnownDevice(w, address) THEN w
    ELSE LET w1 == [w EXCEPT !.ctl.m_knownDevices = Append(@, address)] IN
         IF name = RobotName /\ w1.ctl.m_central = NoCentral
         THEN Controller_checkState([w1 EXCEPT !.ble.discoveryActive = FALSE,
                                               !.ctl.m_central = address,
                                               !.ble.wired = @ \cup {address}])
         ELSE w1

onHostStateChanged(w, state) ==
    IF state = "HostPoweredOff"
    THEN Controller_checkState(w)
    ELSE Controller_checkState([w EXCEPT !.ble.discoveryActive = TRUE])

onDeviceDiscoveryError(w) == raiseError(w, "DeviceDiscoveryError")

onDeviceDiscoveryFinished(w) == Controller_checkState(w)

onDeviceConnected(w) == Controller_checkState([w EXCEPT !.ble.discovering = TRUE])

onDeviceError(w) == resetCentral(raiseError(w, "DeviceError"))

onServiceDiscoveryFinished(w, ub) ==
    LET a == attach(w, w.ctl.m_central, ub) IN
    IF a.w.ble.crashed THEN a.w
    ELSE IF ~a.ret
    THEN Controller_checkState(resetCentral([a.w EXCEPT !.out.ret = "false"]))
    ELSE Controller_checkState([a.w EXCEPT !.out.ret = "true"])

\* Controller::Private::Private
Controller_Private(w, hostMode) ==
    IF ~w.ble.adapterValid
    THEN raiseError(w, "BluetoothMissingError")
    ELSE onHostStateChanged(w, hostMode)

----------------------------------------------------------------------------
(* Construction *)

Constructed(adapterValid) ==
    [ctl |-> [m_error |-> "NoError", m_oldState |-> "UninitializedState",
              m_knownDevices |-> <<>>, m_central |-> NoCentral],
     rs |-> [m_oldState |-> "DisconnectedState", m_deviceInformation |-> NullService,
             m_robotControl |-> NullService, m_writeCharacteristic |-> NoCharacteristic,
             m_firmwareRevision |-> -1, m_currentSound |-> 0, m_pendingMessageCount |-> 0,
             m_message |-> s_pauseMessage, m_audioLoop |-> FALSE, m_emitter |-> FALSE],
     ble |-> [adapterValid |-> adapterValid, discoveryActive |-> FALSE,
              connects |-> 0, discovering |-> FALSE,
              di |-> [c \in Addresses |-> "Unknown"], rc |-> [c \in Addresses |-> "Unknown"],
              wired |-> {}, subscribed |-> {}, notifying |-> {}, pendingDelete |-> {},
              inflight |-> <<>>, extraAcks |-> 0, crashed |-> FALSE],
     out |-> EmptyOut("Controller")]

World(op) == [ctl |-> controller, rs |-> robotService, ble |-> ble, out |-> EmptyOut(op)]

Commit(w) ==
    /\ controller' = w.ctl
    /\ robotService' = w.rs
    /\ ble' = w.ble
    /\ last' = w.out
    /\ UNCHANGED charIsSigned

Init ==
    \E adapterValid \in BOOLEAN, hostMode \in {"HostPoweredOff", "HostConnectable"} :
        LET w == Controller_Private(Constructed(adapterValid), hostMode) IN
        /\ controller = w.ctl
        /\ robotService = w.rs
        /\ ble = w.ble
        /\ last = w.out
        /\ charIsSigned \in BOOLEAN

\* the builds in which plain char is signed
InitSigned == Init /\ charIsSigned


----------------------------------------------------------------------------
(* Events: calls of the public interface *)

Alive == ~ble.crashed

\* calls and notifications are held back once MaxPending transmits are pending
MayTransmit == robotService.m_pendingMessageCount < MaxPending

StartActionCall(action, index) ==
    /\ Alive /\ MayTransmit
    /\ Commit(startAction(World("startAction"), charIsSigned, action, index))

StopActionCall(action, index) ==
    /\ Alive /\ MayTransmit
    /\ Commit(stopAction(World("stopAction"), charIsSigned, action, index))

PlaySoundCall(index) ==
    /\ Alive /\ MayTransmit
    /\ Commit(playSound(World("playSound"), charIsSigned, index))

PlayLoopCall(index) ==
    /\ Alive /\ MayTransmit
    /\ Commit(playLoop(World("playLoop"), charIsSigned, index))

SetCurrentMessageCall(numbers) ==
    /\ Alive /\ MayTransmit
    /\ Commit(setCurrentMessageList(World("setCurrentMessage"), numbers))

----------------------------------------------------------------------------
(* Events: signals of the transport and of the timer *)

HostModeStateChanged(state) ==
    /\ Alive /\ ble.adapterValid
    /\ Commit(onHostStateChanged(World("onHostStateChanged"), state))

DeviceDiscovered(address, name) ==
    /\ Alive /\ ble.adapterValid /\ ble.discoveryActive
    /\ Commit(onDeviceDiscovered(World("onDeviceDiscovered"), address, name))

DeviceDiscoveryError ==
    /\ Alive /\ ble.adapterValid /\ ble.discoveryActive
    /\ Commit(onDeviceDiscoveryError([World("onDeviceDiscoveryError") EXCEPT !.ble.discoveryActive = FALSE]))

DeviceDiscoveryFinished ==
    /\ Alive /\ ble.adapterValid /\ ble.discoveryActive
    /\ Commit(onDeviceDiscoveryFinished([World("onDeviceDiscoveryFinished") EXCEPT !.ble.discoveryActive = FALSE]))

DeviceConnected ==
    /\ Alive /\ ble.wired # {}
    /\ ble.connects < MaxConnects
    /\ Commit(onDeviceConnected([World("onDeviceConnected") EXCEPT !.ble.connects = @ + 1]))

DeviceError ==
    /\ Alive /\ ble.wired # {}
    /\ Commit(onDeviceError(World("onDeviceError")))

\* the signals connected, error and discoveryFinished are delivered for the
\* centrals whose signals are connected to the Controller (ble.wired)

\* the peripheral's services become known with the first finished discovery
Resolved(state, has) ==
    IF state = "Unknown" THEN (IF has THEN "DiscoveryRequired" ELSE "Absent") ELSE state

ServiceDiscoveryFinished(hasDI, hasRC, ub) ==
    /\ Alive /\ ble.wired # {} /\ ble.discovering
    /\ LET c == controller.m_central IN
       Commit(onServiceDiscoveryFinished(
                  [World("onServiceDiscoveryFinished") EXCEPT
                      !.ble.discovering = FALSE,
                      !.ble.di[c] = Resolved(@, hasDI),
                      !.ble.rc[c] = Resolved(@, hasRC)], ub))

\* a service's details are discovered; the lambda of the session's service object runs
ServiceDetailsDiscovered(c, uuid, env) ==
    /\ Alive
    /\ IF uuid = "DI" THEN ble.di[c] = "DiscoveringServices" ELSE ble.rc[c] = "DiscoveringServices"
    /\ LET w == IF uuid = "DI"
                THEN [World("onServiceStateChanged") EXCEPT !.ble.di[c] = "ServiceDiscovered"]
                ELSE [World("onServiceStateChanged") EXCEPT !.ble.rc[c] = "ServiceDiscovered"]
           held == IF uuid = "DI" THEN robotService.m_deviceInformation = c
                                  ELSE robotService.m_robotControl = c
       IN IF held
          THEN Commit(onServiceStateChanged(w, [c |-> c, uuid |-> uuid, current |-> TRUE],
                                            "ServiceDiscovered", env))
          ELSE Commit(w)

CharacteristicChanged(c, isNotify, text) ==
    /\ Alive /\ MayTransmit
    /\ c \in ble.subscribed /\ ble.rc[c] = "ServiceDiscovered"
    /\ Commit(onCharacteristicChanged(World("onCharacteristicChanged"), charIsSigned, isNotify, text))

\* the acknowledgment of the oldest accepted write
CharacteristicWritten ==
    /\ Alive /\ ble.inflight # <<>>
    /\ LET c == Head(ble.inflight).c IN
       /\ c \in ble.subscribed
       /\ Commit(onCharacteristicWritten(
                     [World("onCharacteristicWritten") EXCEPT !.ble.inflight = Tail(@)],
                     c = robotService.m_writeCharacteristic))

\* an acknowledgment that answers no accepted write (a duplicate)
CharacteristicWrittenAgain(c) ==
    /\ Alive /\ ble.extraAcks < MaxExtraAcks
    /\ c \in ble.subscribed /\ ble.rc[c] = "ServiceDiscovered"
    /\ Commit(onCharacteristicWritten(
                  [World("onCharacteristicWrittenAgain") EXCEPT !.ble.extraAcks = @ + 1],
                  c = robotService.m_writeCharacteristic))

EmitterTimeout ==
    /\ Alive /\ robotService.m_emitter
    /\ Commit(onEmitterTimeout(World("onEmitterTimeout")))

Invalidated(state) ==
    IF state \in {"Unknown", "Absent"} THEN state ELSE "InvalidService"

\* deleteLater(): a released central is destroyed once control is back in the
\* event loop; its services become invalid (onServiceStateChanged ignores that state)
CentralDestroyed(c) ==
    /\ Alive /\ c \in ble.pendingDelete
    /\ Commit([World("deleteLater") EXCEPT
                  !.ble.pendingDelete = @ \ {c},
                  !.ble.wired = @ \ {c},
                  !.ble.di[c] = Invalidated(@),
                  !.ble.rc[c] = Invalidated(@),
                  !.ble.subscribed = @ \ {c},
                  !.ble.notifying = @ \ {c},
                  !.ble.inflight = SelectSeq(@, LAMBDA m : m.c # c)])

----------------------------------------------------------------------------------------------------------------------------------------
(* Events with their inputs *)

Token(kind, digits) == [kind |-> kind, digits |-> digits]

Answers == [fw : {"Ver1.0", "Ver2.0", "Ver3.0", "invalid"}, notifyOk : BOOLEAN, writeOk : BOOLEAN]

StartAction(calls) == \E call \in calls : StartActionCall(call[1], call[2])
StopAction(calls) == \E call \in calls : StopActionCall(call[1], call[2])
PlaySound(indices) == \E index \in indices : PlaySoundCall(index)
PlayLoop(indices) == \E index \in indices : PlayLoopCall(index)
SetCurrentMessage(messages) == \E numbers \in messages : SetCurrentMessageCall(numbers)
OnHostStateChanged == \E state \in {"HostPoweredOff", "HostConnectable"} : HostModeStateChanged(state)
OnDeviceDiscovered(devices) == \E device \in devices : DeviceDiscovered(device[1], device[2])
OnDeviceDiscoveryError == DeviceDiscoveryError
OnDeviceDiscoveryFinished == DeviceDiscoveryFinished
OnDeviceConnected == DeviceConnected
OnDeviceError == DeviceError
OnServiceDiscoveryFinished(has) ==
    \E hasDI \in has, hasRC \in has, ub \in {"crash", "continue"} :
        ServiceDiscoveryFinished(hasDI, hasRC, ub)
OnServiceStateChanged(answers) ==
    \E c \in Addresses, uuid \in {"DI", "RC"}, env \in answers : ServiceDetailsDiscovered(c, uuid, env)
OnCharacteristicChanged(texts) ==
    \E c \in Addresses, isNotify \in BOOLEAN, text \in texts : CharacteristicChanged(c, isNotify, text)
OnCharacteristicWritten == CharacteristicWritten
OnCharacteristicWrittenAgain == \E c \in Addresses : CharacteristicWrittenAgain(c)
OnEmitterTimeout == EmitterTimeout
DeleteLater == \E c \in Addresses : CentralDestroyed(c)

----------------------------------------------------------------------------
(* Spec: the connection is followed through every event of the transport,   *)
(* with few calls of the public interface.  No call passes an index that a  *)
(* signed and an unsigned char hold differently, so one build is followed.  *)

\* address 1 is the robot, first seen with or without its name; address 2 is another device
Devices == {<<1, RobotName>>, <<1, "Other">>, <<2, "Other">>}

Calls == {<<"F", 2>>, <<"Z", 0>>}

Texts == {<<Token("Play", <<3>>)>>}

Next ==
    \/ StartAction(Calls)
    \/ StopAction(Calls)
    \/ OnHostStateChanged
    \/ OnDeviceDiscovered(Devices)
    \/ OnDeviceDiscoveryError
    \/ OnDeviceDiscoveryFinished
    \/ OnDeviceConnected
    \/ OnDeviceError
    \/ OnServiceDiscoveryFinished(BOOLEAN)
    \/ OnServiceStateChanged(Answers)
    \/ OnCharacteristicChanged(Texts)
    \/ OnCharacteristicWritten
    \/ OnEmitterTimeout
    \/ DeleteLater

Spec == InitSigned /\ [][Next]_vars

----------------------------------------------------------------------------
(* SpecSession: the robot is found and its services are complete; the       *)
(* session is followed through calls, notifications, acknowledgments and    *)
(* ticks.                                                                    *)

SessionCalls == {<<"V", 3>>, <<"M", 3>>, <<"V", 12>>, <<"E", 0>>}

SessionTexts ==
    {<<Token("Play", <<3>>)>>, <<Token("End", <<3>>)>>,
     <<Token("Play", <<1, 2>>)>>, <<Token("End", <<1, 2>>)>>,
     <<Token("End", <<3>>), Token("Play", <<1, 2>>)>>,
     <<Token("Play", <<3>>), Token("Play", <<1, 2>>)>>,
     <<Token("Other", <<>>)>>}

SessionMessages == {s_pauseMessage, <<88, 3, 64, 64, 24, 0>>, <<88, 17>>}

SessionAnswers == [fw : {"Ver2.0"}, notifyOk : {TRUE}, writeOk : {TRUE}]

NextSession ==
    \/ StartAction(SessionCalls)
    \/ StopAction(SessionCalls)
    \/ OnDeviceDiscovered({<<1, RobotName>>})
    \/ OnDeviceConnected
    \/ OnServiceDiscoveryFinished({TRUE})
    \/ OnServiceStateChanged(SessionAnswers)
    \/ OnCharacteristicChanged(SessionTexts)
    \/ OnCharacteristicWritten
    \/ OnCharacteristicWrittenAgain
    \/ OnEmitterTimeout
    \/ DeleteLater

SpecSession == InitSigned /\ [][NextSession]_vars

----------------------------------------------------------------------------
(* SpecActions: the public interface of a session that is not attached,     *)
(* with every action symbol and indices below, inside and above the ranges  *)
(* of the codec, in both builds.                                            *)

MoveIndices == {-1, 2, 99, 128, 255, 256}
SoundIndices == {-1, 3, 235}
ExtensionIndices == {0, 10}

ActionCalls ==
    ({"F", "B", "L", "R"} \X MoveIndices) \cup ({"O", "C", "U", "D"} \X {0, 7})
        \cup ({"V", "M"} \X SoundIndices) \cup ({"E"} \X ExtensionIndices)
        \cup {<<"S", 0>>, <<"Z", 0>>}

NextActions ==
    \/ StartAction(ActionCalls)
    \/ StopAction(ActionCalls)
    \/ PlaySound(SoundIndices)
    \/ PlayLoop(SoundIndices)
    \/ SetCurrentMessage(SessionMessages)

SpecActions == Init /\ [][NextActions]_vars


----------------------------------------------------------------------------
(* SpecBuffer: the command buffer of a session that gets connected, under   *)
(* calls, whole-buffer replacements (one of them with another byte 0, one   *)
(* too short), notifications, acknowledgments and ticks.                    *)

BufferCalls == {<<"V", 3>>, <<"E", 0>>, <<"S", 0>>}

BufferMessages == {<<0, 17, 64, 64, 0, 0>>, <<88, 17>>, <<88, 17, 64, 64, 0, 0, 0>>}

BufferTexts == {<<Token("Play", <<3>>)>>, <<Token("End", <<3>>)>>}

NextBuffer ==
    \/ StartAction(BufferCalls)
    \/ StopAction(BufferCalls)
    \/ SetCurrentMessage(BufferMessages)
    \/ OnDeviceDiscovered({<<1, RobotName>>})
    \/ OnDeviceConnected
    \/ OnServiceDiscoveryFinished({TRUE})
    \/ OnServiceStateChanged(SessionAnswers)
    \/ OnCharacteristicChanged(BufferTexts)
    \/ OnCharacteristicWritten
    \/ OnCharacteristicWrittenAgain
    \/ OnEmitterTimeout

SpecBuffer == InitSigned /\ [][NextBuffer]_vars

----------------------------------------------------------------------------
(* SpecLive: a session that gets connected and stays so, with calls made    *)
(* before and after; the timer keeps firing (it is a repeating QTimer) and  *)
(* the transport acknowledges every write it has accepted.                  *)

LiveCalls == {<<"F", 2>>}

NextLive ==
    \/ StartAction(LiveCalls)
    \/ StopAction(LiveCalls)
    \/ OnDeviceDiscovered({<<1, RobotName>>})
    \/ OnDeviceConnected
    \/ OnServiceDiscoveryFinished({TRUE})
    \/ OnServiceStateChanged(SessionAnswers)
    \/ OnCharacteristicWritten
    \/ OnEmitterTimeout

SpecLive ==
    /\ InitSigned /\ [][NextLive]_vars
    /\ WF_vars(OnEmitterTimeout)
    /\ WF_vars(OnCharacteristicWritten)

----------------------------------------------------------------------------
(* SpecSound: sounds of a session that gets connected: play, loop and       *)
(* pause calls, with the notifications the robot sends for sound 3.         *)

SoundCalls == {<<"V", 3>>, <<"M", 3>>, <<"S", 0>>}

SoundTexts == {<<Token("Play", <<3>>)>>, <<Token("End", <<3>>)>>}

NextSound ==
    \/ StartAction(SoundCalls)
    \/ StopAction(SoundCalls)
    \/ OnDeviceDiscovered({<<1, RobotName>>})
    \/ OnDeviceConnected
    \/ OnServiceDiscoveryFinished({TRUE})
    \/ OnServiceStateChanged(SessionAnswers)
    \/ OnCharacteristicChanged(SoundTexts)
    \/ OnCharacteristicWritten
    \/ OnEmitterTimeout

SpecSound == InitSigned /\ [][NextSound]_vars

----------------------------------------------------------------------------
(* Properties *)

\* the world as it is between two events
Now == [ctl |-> controller, rs |-> robotService, ble |-> ble, out |-> last]

\* C1: the pending-write counter is never negative, whatever acknowledgments arrive
C1_PendingCountNeverNegative == robotService.m_pendingMessageCount >= 0

\* C2: a tick issues a write only if the pending-write counter is 0 when it fires;
\* a tick that finds the counter different from 0 changes neither the counter nor
\* the buffer nor the writes the transport holds, and issues no write
C2_TickTransmitsOnlyWhenIdle ==
    [][last'.op = "onEmitterTimeout" =>
          /\ last'.writes # <<>> => robotService.m_pendingMessageCount = 0
          /\ robotService.m_pendingMessageCount # 0 =>
                /\ last'.writes = <<>>
                /\ robotService' = robotService
                /\ ble' = ble]_vars

C2_TickWhilePending ==
    /\ last.op = "onEmitterTimeout"
    /\ robotService.m_pendingMessageCount # 0
    /\ last.writes = <<>>


\* C3: once an error has been raised the derived and the reported state are
\* ErrorState and stay so after every later event; the step that raises the
\* first error emits a state change to ErrorState (the constructor included)
C3_ErrorDominates ==
    /\ [](controller.m_error # "NoError" =>
             /\ Controller_state(Now) = "ErrorState"
             /\ controller.m_oldState = "ErrorState")
    /\ []((last.op = "Controller" /\ last.errorOccured # <<>>) =>
             last.ctlStateChanged = <<<<"ErrorState", "UninitializedState">>>>)
    /\ [][(controller.m_error = "NoError" /\ last'.errorOccured # <<>>) =>
             /\ last'.ctlStateChanged # <<>>
             /\ last'.ctlStateChanged[Len(last'.ctlStateChanged)][1] = "ErrorState"]_vars
    /\ [][controller.m_error # "NoError" => controller'.m_error # "NoError"]_vars

\* an error was raised on the central, and the scan was started again afterwards
C3_EventsAfterError ==
    /\ controller.m_error = "DeviceError"
    /\ last.op = "onHostStateChanged"
    /\ ble.discoveryActive
    /\ RobotService_state(Now) = "ConnectedState"

\* state changes <<new, old>> along Uninitialized, DeviceDiscovery, ServiceDiscovery, Connected
ForwardChanges ==
    {<<"DeviceDiscoveryState", "UninitializedState">>,
     <<"ServiceDiscoveryState", "DeviceDiscoveryState">>,
     <<"ConnectedState", "ServiceDiscoveryState">>}

\* nothing has gone wrong so far: no error, no crash, no central released
\* (a release leaves the central pending deletion, then its services invalid;
\* a peripheral without a required service leaves that service absent)
CleanSoFar ==
    /\ ble.adapterValid /\ ~ble.crashed
    /\ controller.m_error = "NoError"
    /\ ble.pendingDelete = {}
    /\ \A c \in Addresses : /\ ble.di[c] \notin {"Absent", "InvalidService"}
                            /\ ble.rc[c] \notin {"Absent", "InvalidService"}

\* C4: on a clean run (no error, no failed attach, no scan that ends before the
\* robot is found) every state change the Controller reports is one step forward
\* along Uninitialized, DeviceDiscovery, ServiceDiscovery, Connected, and the
\* derived state is one of these four
C4_CleanRunMonotonic ==
    /\ [](CleanSoFar => Controller_state(Now) \in
             {"UninitializedState", "DeviceDiscoveryState", "ServiceDiscoveryState", "ConnectedState"})
    /\ []((CleanSoFar /\ last.op = "Controller") =>
             \A k \in 1..Len(last.ctlStateChanged) : last.ctlStateChanged[k] \in ForwardChanges)
    /\ [][(CleanSoFar' /\ last'.op # "onDeviceDiscoveryFinished") =>
             \A k \in 1..Len(last'.ctlStateChanged) : last'.ctlStateChanged[k] \in ForwardChanges]_vars

C4_CleanRunConnected ==
    /\ CleanSoFar
    /\ last.ctlStateChanged = <<<<"ConnectedState", "ServiceDiscoveryState">>>>
    /\ controller.m_oldState = "ConnectedState"

\* the session is attached and the central it was attached to has been released
TornDown == robotService.m_robotControl # NullService /\ controller.m_central = NoCentral

\* C5: after the teardown of an attached session the write characteristic and
\* both service handles are cleared, the tick is stopped, the session is
\* Disconnected and a start_action call fails
C5_DetachClears ==
    TornDown =>
        /\ robotService.m_writeCharacteristic = NoCharacteristic
        /\ robotService.m_deviceInformation = NullService
        /\ ~robotService.m_emitter
        /\ RobotService_state(Now) = "DisconnectedState"
        /\ last.op = "startAction" => last.ret = "false"

\* C6: while the Controller has no central handle the tick is cancelled and no
\* characteristic write is issued
C6_NoWriteWithoutCentral ==
    controller.m_central = NoCentral => (~robotService.m_emitter /\ last.writes = <<>>)

\* C7: a device-discovered event that reports the robot's name while there is no
\* central stops the scan and creates the central for that address
C7_RobotDiscoveredConnects ==
    [][\A device \in Devices :
          (device[2] = RobotName /\ controller.m_central = NoCentral
              /\ DeviceDiscovered(device[1], device[2]))
          => (controller'.m_central = device[1] /\ ~ble'.discoveryActive)]_vars

\* C8: start_action(a, i), stop_action(a, i), stop_action(a, i) in a row: the
\* first stop succeeds and leaves the pause value in the action's byte, the
\* second fails and leaves the buffer as it is
C8_StartStopStop ==
    \A call \in ActionCalls :
        LET fragment == fragmentForAction(robotService, charIsSigned, call[1], call[2])
            started == startAction(Now, charIsSigned, call[1], call[2])
            stopped == stopAction(started, charIsSigned, call[1], call[2])
            again == stopAction(stopped, charIsSigned, call[1], call[2])
        IN FragmentValid(fragment) =>
              /\ stopped.out.ret = "true"
              /\ stopped.rs.m_message[fragment.offset + 1] = s_pauseMessage[fragment.offset + 1]
              /\ again.out.ret = "false"
              /\ again.rs.m_message = stopped.rs.m_message

\* C9: a notification with V<n>Play (the first such pattern of its text),
\* received with loop mode off: the sound state becomes n, byte 4 is 0 if it
\* was n + 21 and is untouched otherwise, and one sound-changed event carries n
C9_PlayNotificationStops ==
    [][\A c \in Addresses, text \in SessionTexts :
          (/\ last'.op = "onCharacteristicChanged"
           /\ FirstMatch(text, "Play") # <<>>
           /\ ~robotService.m_audioLoop
           /\ CharacteristicChanged(c, TRUE, text))
          => LET n == DecimalValue(FirstMatch(text, "Play")[1].digits) IN
             /\ robotService'.m_currentSound = n
             /\ robotService'.m_message[5] # n + 21
             /\ robotService.m_message[5] = n + 21 => robotService'.m_message[5] = 0
             /\ robotService.m_message[5] # n + 21 => robotService'.m_message = robotService.m_message
             /\ last'.currentSoundChanged = <<n>>]_vars

\* sound 3 was playing and the V3Play notification stopped it
C9_PlayingSoundStopped ==
    /\ last.op = "onCharacteristicChanged"
    /\ ~robotService.m_audioLoop
    /\ last.currentSoundChanged = <<3>>
    /\ Len(last.writes) = 1
    /\ robotService.m_message[5] = 0

\* C10: a notification whose text has V<n>End: with loop mode on the loop is
\* started again (byte 4 is n + 21, loop mode on, sound state n); with loop
\* mode off the sound state is -n and byte 4 is not n + 21; one sound-changed
\* event either way
C10_EndNotification ==
    [][\A c \in Addresses, text \in SessionTexts :
          (/\ last'.op = "onCharacteristicChanged"
           /\ FirstMatch(text, "End") # <<>>
           /\ CharacteristicChanged(c, TRUE, text))
          => LET n == DecimalValue(FirstMatch(text, "End")[1].digits) IN
             /\ Len(last'.currentSoundChanged) = 1
             /\ IF robotService.m_audioLoop
                THEN /\ robotService'.m_message[5] = n + 21
                     /\ robotService'.m_audioLoop
                     /\ robotService'.m_currentSound = n
                ELSE /\ robotService'.m_currentSound = -n
                     /\ robotService'.m_message[5] # n + 21]_vars

\* base of the value band of a direction
DirectionBase(action) ==
    CASE action = "F" -> 1 [] action = "B" -> 5 [] action = "L" -> 9 [] action = "R" -> 13

\* C11: for every index, those that do not fit a signed 8-bit char included,
\* the fragment of Forward/Back/Left/Right has offset 1 and the value
\* clamp(index, 0, 3) + base (bases 1, 5, 9, 13), which lies in the band of
\* its direction and is never the pause value 0x11
C11_DirectionClamp ==
    \A action \in {"F", "B", "L", "R"}, index \in MoveIndices :
        LET fragment == fragmentForAction(robotService, charIsSigned, action, index) IN
        /\ fragment.offset = 1
        /\ fragment.value = qBound(0, index, 3) + DirectionBase(action)
        /\ fragment.value \in DirectionBase(action)..(DirectionBase(action) + 3)
        /\ fragment.value # 17

\* the step changed nothing of the session nor of the Controller, issued no
\* write and emitted no signal
SoftFailureFrame ==
    /\ robotService' = robotService
    /\ controller' = controller
    /\ last'.writes = <<>>
    /\ ble'.inflight = ble.inflight
    /\ last'.ctlStateChanged = <<>> /\ last'.rsStateChanged = <<>> /\ last'.errorOccured = <<>>
    /\ RobotService_state(Now') = RobotService_state(Now)
    /\ Controller_state(Now') = Controller_state(Now)

\* C12: a start or stop that returns failure (unknown symbol, or stop of an
\* action that is not active) and a firmware-revision string that is not
\* recognized change neither the buffer, the pending-write counter, the session
\* state, the Controller's error nor its derived state, and issue no write
C12_SoftFailuresChangeNothing ==
    /\ [][(last'.op \in {"startAction", "stopAction"} /\ last'.ret = "false")
             => SoftFailureFrame]_vars
    /\ [][\A c \in Addresses, env \in Answers :
             (/\ last'.op = "onServiceStateChanged"
              /\ env.fw \notin {"Ver1.0", "Ver2.0"}
              /\ ServiceDetailsDiscovered(c, "DI", env))
             => SoftFailureFrame]_vars

\* a moving robot was asked to start an action that does not exist
C12_UnknownActionWhileMoving ==
    /\ last.op = "startAction" /\ last.ret = "false"
    /\ robotService.m_message[2] = 3
    /\ RobotService_state(Now) = "ConnectedState"

\* C13: the step in which the session becomes Connected starts the tick and
\* issues exactly one write, whose payload is the pause message
\* 58 11 40 40 00 00, whatever was called before
C13_FirstWriteIsPause ==
    [][(RobotService_state(Now) # "ConnectedState" /\ RobotService_state(Now') = "ConnectedState")
          => /\ robotService'.m_emitter
             /\ Len(last'.writes) = 1
             /\ last'.writes[1].msg = s_pauseMessage]_vars

\* C14: a Connected session has its notifications armed, and they were armed
\* before the write characteristic; a robot-control service discovered with an
\* invalid notify characteristic or descriptor arms nothing, starts no tick
\* and leaves the session short of Connected
C14_NotificationBeforeWrite ==
    /\ [](RobotService_state(Now) = "ConnectedState" =>
             robotService.m_writeCharacteristic \in ble.notifying)
    /\ []((\E k \in 1..Len(last.armed) : last.armed[k] = "write") =>
             last.armed = <<"notification", "write">>)
    /\ [][\A c \in Addresses, env \in Answers :
             (/\ last'.op = "onServiceStateChanged"
              /\ ~env.notifyOk
              /\ ServiceDetailsDiscovered(c, "RC", env))
             => /\ last'.armed = <<>>
                /\ robotService'.m_writeCharacteristic = robotService.m_writeCharacteristic
                /\ robotService'.m_writeCharacteristic = NoCharacteristic
                /\ robotService'.m_emitter = robotService.m_emitter
                /\ last'.writes = <<>>
                /\ RobotService_state(Now') # "ConnectedState"]_vars

\* the robot-control service of the session was discovered and nothing was armed
C14_NotificationArmingFailed ==
    /\ last.op = "onServiceStateChanged" /\ last.armed = <<>>
    /\ robotService.m_robotControl = 1 /\ ble.rc[1] = "ServiceDiscovered"
    /\ robotService.m_writeCharacteristic = NoCharacteristic
    /\ ~robotService.m_emitter
    /\ RobotService_state(Now) = "ConnectingState"

\* C15: when service discovery finishes on a peripheral that lacks the
\* device-information or the robot-control service, attach returns failure,
\* the session stays Disconnected with no service handle, the Controller
\* releases the central, raises no error and does not restart the scan
C15_AttachFailureReleasesCentral ==
    [][(/\ last'.op = "onServiceDiscoveryFinished"
        /\ controller.m_central # NoCentral
        /\ "Absent" \in {ble'.di[controller.m_central], ble'.rc[controller.m_central]})
          => /\ last'.ret = "false"
             /\ ~ble'.crashed
             /\ RobotService_state(Now') = "DisconnectedState"
             /\ robotService'.m_deviceInformation = NullService
             /\ robotService'.m_robotControl = NullService
             /\ controller'.m_central = NoCentral
             /\ controller'.m_error = controller.m_error /\ last'.errorOccured = <<>>
             /\ ble'.discoveryActive = ble.discoveryActive]_vars

\* C16: a central error sets DeviceError, emits the error, disconnects the
\* central's signals and releases it in the same step, and does not touch the
\* scan; connected / error / discoveryFinished are handled only for the
\* central the Controller holds; a scan error sets DeviceDiscoveryError and
\* leaves the discovered addresses as they are
C16_CentralErrorReleases ==
    /\ [][last'.op = "onDeviceError" =>
             /\ controller'.m_error = "DeviceError"
             /\ last'.errorOccured = <<"DeviceError">>
             /\ controller.m_central # NoCentral /\ controller'.m_central = NoCentral
             /\ ble'.wired = {}
             /\ controller.m_central \in ble'.pendingDelete
             /\ ble'.discoveryActive = ble.discoveryActive
             /\ controller'.m_knownDevices = controller.m_knownDevices]_vars
    /\ [][last'.op \in {"onDeviceConnected", "onDeviceError", "onServiceDiscoveryFinished"} =>
             /\ controller.m_central # NoCentral
             /\ controller.m_central \notin ble.pendingDelete]_vars
    /\ [][last'.op = "onDeviceDiscoveryError" =>
             /\ controller'.m_error = "DeviceDiscoveryError"
             /\ last'.errorOccured = <<"DeviceDiscoveryError">>
             /\ controller'.m_knownDevices = controller.m_knownDevices]_vars

\* the central of a connected session failed while the scan was running again
C16_CentralFailed ==
    /\ last.op = "onDeviceError"
    /\ controller.m_error = "DeviceError"
    /\ 1 \in ble.pendingDelete
    /\ ble.discoveryActive
    /\ robotService.m_emitter

\* the state changes <<new, old>> of one step: each one changes the state, each
\* starts from what was reported before it, and the last one is what is
\* reported after the step
ChainedChanges(events, before, after) ==
    /\ \A k \in 1..Len(events) :
          /\ events[k][1] # events[k][2]
          /\ events[k][2] = IF k = 1 THEN before ELSE events[k - 1][1]
    /\ after = IF events = <<>> THEN before ELSE events[Len(events)][1]

\* C17 (events): in the Controller and in the session every state-change event
\* has a new state different from its old state, and its old state is the new
\* state of the event before it
C17_ChangesAreChained ==
    /\ []((last.op = "Controller") =>
             ChainedChanges(last.ctlStateChanged, "UninitializedState", controller.m_oldState))
    /\ [][/\ ChainedChanges(last'.ctlStateChanged, controller.m_oldState, controller'.m_oldState)
          /\ ChainedChanges(last'.rsStateChanged, robotService.m_oldState, robotService'.m_oldState)]_vars

\* C17: state-change events are chained as above and, after every event the
\* two classes handle, the state last reported is the state derived now, in
\* the Controller (when its adapter is valid) and in the session
C17_ReportedStateIsDerivedState ==
    /\ C17_ChangesAreChained
    /\ [](last.op # "deleteLater" =>
             /\ robotService.m_oldState = RobotService_state(Now)
             /\ controller.m_oldState = Controller_state(Now))

\* the bytes at the offsets in keep are the same in both buffers
SameBytes(before, after, keep) ==
    /\ Len(after) = Len(before)
    /\ \A k \in keep : after[k + 1] = before[k + 1]

\* the offset the codec assigns to an action symbol
AssignedOffset(action) ==
    CASE action \in {"F", "B", "L", "R"} -> 1
      [] action \in {"O", "C"} -> 2
      [] action \in {"U", "D"} -> 3
      [] action \in {"V", "M"} -> 4
      [] action = "E" -> 5

\* C18 (length and offsets): the buffer always has length 6; a start or stop
\* with a fragment changes at most the byte at the action's assigned offset;
\* a replacement buffer of another length is ignored
C18_LengthAndOffsets ==
    /\ Len(robotService.m_message) = 6
    /\ \A call \in ActionCalls :
          LET fragment == fragmentForAction(robotService, charIsSigned, call[1], call[2])
              started == startAction(World("startAction"), charIsSigned, call[1], call[2])
              stopped == stopAction(World("stopAction"), charIsSigned, call[1], call[2])
          IN FragmentValid(fragment) =>
                /\ fragment.offset = AssignedOffset(call[1])
                /\ SameBytes(robotService.m_message, started.rs.m_message, (0..5) \ {fragment.offset})
                /\ SameBytes(robotService.m_message, stopped.rs.m_message, (0..5) \ {fragment.offset})
    /\ \A numbers \in BufferMessages :
          Len(numbers) # 6 =>
              setCurrentMessageList(World("setCurrentMessage"), numbers) = World("setCurrentMessage")

\* C18: as above, and byte 0 is not changed by any start_action, stop_action,
\* notification or write acknowledgment
C18_BufferShape ==
    /\ []C18_LengthAndOffsets
    /\ [][last'.op \in {"startAction", "stopAction", "onCharacteristicChanged",
                        "onCharacteristicWritten", "onCharacteristicWrittenAgain"}
             => robotService'.m_message[1] = robotService.m_message[1]]_vars

\* C18 (amended): length and offsets as above; byte 0 is not changed by a
\* stop_action, a notification or a write acknowledgment, nor by a
\* start_action other than the pause 'S', which replaces the whole buffer by
\* the pause message
C18_BufferShapeExceptPause ==
    /\ []C18_LengthAndOffsets
    /\ [][last'.op \in {"stopAction", "onCharacteristicChanged",
                        "onCharacteristicWritten", "onCharacteristicWrittenAgain"}
             => robotService'.m_message[1] = robotService.m_message[1]]_vars
    /\ [][(last'.op = "startAction" /\ robotService'.m_message[1] # robotService.m_message[1])
             => /\ StartActionCall("S", 0)
                /\ robotService'.m_message = s_pauseMessage]_vars

\* a sound was started on a buffer whose byte 0 had been replaced
C18_StartedOnReplacedBuffer ==
    /\ last.op = "startAction" /\ last.ret = "true"
    /\ robotService.m_message[1] = 0
    /\ robotService.m_message[5] = 24
    /\ Len(last.writes) = 1

\* C19: after an acknowledgment of a write to the write characteristic byte 5
\* is 0, and an acknowledgment that resets a nonzero byte 5 answers a write
\* whose payload carried that value
C19_ExtensionClearedAfterDelivery ==
    [][(last'.op = "onCharacteristicWritten" /\ Head(ble.inflight).c = robotService.m_writeCharacteristic)
          => /\ robotService'.m_message[6] = 0
             /\ robotService.m_message[6] # 0 => Head(ble.inflight).ext = robotService.m_message[6]]_vars

\* the last event wrote the current buffer to a write characteristic that took it
CurrentBufferWritten ==
    \E k \in 1..Len(last.writes) :
        last.writes[k].accepted /\ last.writes[k].msg = robotService.m_message

\* C20: if the session stays Connected and the calls come to an end (from some
\* point on only ticks and acknowledgments happen), the pending-write counter
\* is 0 again and again and the current buffer is written again and again,
\* whenever the calls were made
C20_KeepAlive ==
    (/\ <>[](RobotService_state(Now) = "ConnectedState")
     /\ <>[](last.op \in {"onEmitterTimeout", "onCharacteristicWritten"}))
    => /\ []<>(robotService.m_pendingMessageCount = 0)
       /\ []<>CurrentBufferWritten

\* the writes the transport took for the session's write characteristic and
\* has not acknowledged yet
UnacknowledgedWrites ==
    Len(SelectSeq(ble.inflight, LAMBDA m : m.c = robotService.m_writeCharacteristic))

\* C21: the pending-write counter is the number of writes issued to the valid
\* write characteristic that are not acknowledged yet
C21_CounterCountsWritesInFlight ==
    robotService.m_pendingMessageCount = UnacknowledgedWrites

\* C22: whenever the Controller's derived state is Connected, the Controller
\* holds a central and both service handles of the session belong to it
C22_ConnectedHasCentral ==
    Controller_state(Now) = "ConnectedState" =>
        /\ controller.m_central # NoCentral
        /\ robotService.m_robotControl = controller.m_central
        /\ robotService.m_deviceInformation = controller.m_central

\* start_action('S') has just reset the buffer to the pause message (no other
\* start leaves the pause message behind)
JustPaused ==
    /\ last.op = "startAction" /\ last.ret = "true"
    /\ robotService.m_message = s_pauseMessage

\* C23 (loop mode): loop mode is switched on only by start_action('M', _) and
\* switched off only by start_action('V', _)
C23_LoopModeSetByCalls ==
    [][robotService'.m_audioLoop # robotService.m_audioLoop =>
          \E call \in SoundCalls :
              /\ call[1] = (IF robotService'.m_audioLoop THEN "M" ELSE "V")
              /\ StartActionCall(call[1], call[2])]_vars

\* C23: loop mode changes as above, and a notification that arrives after
\* start_action('S') has reset the buffer leaves byte 4 at the idle value 0
C23_PausedStaysPaused ==
    /\ C23_LoopModeSetByCalls
    /\ [][(JustPaused /\ last'.op = "onCharacteristicChanged")
             => robotService'.m_message[5] = 0]_vars

============================================================================
